---- MODULE Spec2Model ----
(***************************************************************************)
(* fastcrud core: the entity model (BaseCrudModel), the CRUD dispatcher    *)
(* (BaseCrud) and the router that wires both to a storage backend          *)
(* (CRUDRouter), as a state machine.                                       *)
(*                                                                         *)
(* The storage backend (fastcrud.storage) and run_async_or_sync            *)
(* (fastcrud.utils) are imported by core.py; their behaviour is taken from *)
(* the specification's contract (sections 4.1, 4.2, 5 and 7).              *)
(***************************************************************************)
EXTENDS Integers, Sequences, FiniteSets, TLC

\* ------------------------------------------------------------- bounds
MaxBatch == 2      \* longest batch given to a bulk operation
MaxCalls == 2      \* in-process dispatcher calls made in one run
MaxHttp == 1       \* HTTP requests made in one run

\* ------------------------------------------------------------- values
Procs == {"r1", "r2"}          \* requests the host serves concurrently
Names == {"a", "b"}            \* values of the caller-defined field
NoUid == 0                     \* a request body that carries no uid

NoObj == [uid |-> NoUid, name |-> "", created_on |-> 0, modify_on |-> 0]
NoFilter == [field |-> "", value |-> "", opr |-> ""]
NoHttp == [method |-> "", path |-> "", pathId |-> NoUid, queryUid |-> NoUid]

\* class BaseCrudModel: uid, created_on and modify_on are filled by their
\* default factories (uuid1, datetime.now) when the body leaves them out.
BaseCrudModel(body, fresh, now) ==
    [uid |-> IF body.uid = NoUid THEN fresh ELSE body.uid,
     name |-> body.name,
     created_on |-> now,
     modify_on |-> now]

\* number of bodies of a batch that take a generated uid
NFresh(bodies) == Cardinality({i \in DOMAIN bodies : bodies[i].uid = NoUid})

\* typing.List[self.model]: one model instance per body, in body order
RECURSIVE ParseList(_, _, _)
ParseList(bodies, next, now) ==
    IF bodies = <<>> THEN <<>>
    ELSE <<BaseCrudModel(Head(bodies), next, now)>>
         \o ParseList(Tail(bodies),
                      IF Head(bodies).uid = NoUid THEN next + 1 ELSE next,
                      now)


\* ------------------------------------------------ storage backend (contract)
\* fastcrud.storage: the collection is a function from the uids present to
\* their records. Every operation yields the new collection, an error
\* ("none" on success) and the value it returns (a sequence of records).
SupportedOps == {"eq", "ne"}
Result(coll, err, val) == [coll |-> coll, err |-> err, val |-> val]

Store(coll, uid, rec) ==
    [u \in (DOMAIN coll) \cup {uid} |-> IF u = uid THEN rec ELSE coll[u]]

Remove(coll, uid) == [u \in (DOMAIN coll) \ {uid} |-> coll[u]]

Matches(rec, flt) ==
    CASE flt.opr = "eq" -> rec.name = flt.value
      [] flt.opr = "ne" -> rec.name # flt.value
      [] OTHER -> FALSE

\* the records of a set of uids, by ascending uid
RECURSIVE RecordsOf(_, _)
RecordsOf(coll, us) ==
    IF us = {} THEN <<>>
    ELSE LET m == CHOOSE u \in us : \A v \in us : u <= v
         IN <<coll[m]>> \o RecordsOf(coll, us \ {m})

storage_get(coll, uid) ==
    IF uid \in DOMAIN coll THEN Result(coll, "none", <<coll[uid]>>)
    ELSE Result(coll, "NotFound", <<>>)

storage_get_many(coll, flt) ==
    IF flt.opr \notin SupportedOps THEN Result(coll, "InvalidOperator", <<>>)
    ELSE Result(coll, "none",
                RecordsOf(coll, {u \in DOMAIN coll : Matches(coll[u], flt)}))

storage_create(coll, obj) ==
    IF obj.uid \in DOMAIN coll THEN Result(coll, "Conflict", <<>>)
    ELSE Result(Store(coll, obj.uid, obj), "none", <<obj>>)

\* full replacement; the identifier stays, modify_on is refreshed
storage_put(coll, uid, obj, now) ==
    IF uid \notin DOMAIN coll THEN Result(coll, "NotFound", <<>>)
    ELSE LET rec == [obj EXCEPT !.uid = uid, !.modify_on = now]
         IN Result(Store(coll, uid, rec), "none", <<rec>>)

\* upsert: created at uid when absent, otherwise the supplied fields are
\* merged into the stored record and modify_on is refreshed
storage_patch(coll, uid, obj, now) ==
    LET rec == IF uid \in DOMAIN coll
               THEN [coll[uid] EXCEPT !.name = obj.name, !.modify_on = now]
               ELSE [obj EXCEPT !.uid = uid]
    IN Result(Store(coll, uid, rec), "none", <<rec>>)

storage_delete(coll, uid) ==
    IF uid \in DOMAIN coll THEN Result(Remove(coll, uid), "none", <<coll[uid]>>)
    ELSE Result(coll, "NotFound", <<>>)

\* one backend operation; unavailable = the backend's resource fails
StorageExec(call, coll, now, unavailable) ==
    IF unavailable THEN Result(coll, "BackendUnavailable", <<>>)
    ELSE CASE call.op = "get" -> storage_get(coll, call.uid)
           [] call.op = "get_many" -> storage_get_many(coll, call.flt)
           [] call.op = "create" -> storage_create(coll, call.obj)
           [] call.op = "put" -> storage_put(coll, call.uid, call.obj, now)
           [] call.op = "patch" -> storage_patch(coll, call.uid, call.obj, now)
           [] call.op = "delete" -> storage_delete(coll, call.uid)

\* ------------------------------------------------------------ dispatcher
\* a call on self.storage, with the arguments the dispatcher hands over
StorageCall(op, uid, obj, flt) == [op |-> op, uid |-> uid, obj |-> obj, flt |-> flt]
NoCall == StorageCall("", NoUid, NoObj, NoFilter)

_get(uid) == StorageCall("get", uid, NoObj, NoFilter)
_get_many(flt) == StorageCall("get_many", NoUid, NoObj, flt)
\* variant: the backend gets a model built from the defaults alone
_create_defaults(obj) == StorageCall("create", NoUid, [obj EXCEPT !.name = ""], NoFilter)
_create(obj) == StorageCall("create", NoUid, obj, NoFilter)
\* variant: the record is dropped on the way to the backend
_put_uid_only(uid, obj) == StorageCall("put", uid, NoObj, NoFilter)
_put(uid, obj) == StorageCall("put", uid, obj, NoFilter)
_patch(uid, obj) == StorageCall("patch", uid, obj, NoFilter)
_delete(uid) == StorageCall("delete", uid, NoObj, NoFilter)

BulkMethods == {"_create_many", "_put_many", "_patch_many", "_delete_many"}
SingleMethods == {"_get", "_get_many", "_create", "_put", "_patch", "_delete"}
Methods == SingleMethods \cup BulkMethods

\* what evaluating one step of a method body gives: a backend call to await,
\* an exception, or the return of the method
Await(call) == [kind |-> "call", call |-> call, err |-> "none"]
Raise(err) == [kind |-> "raise", call |-> NoCall, err |-> err]
Return == [kind |-> "return", call |-> NoCall, err |-> "none"]

\* the batch of a bulk call: the model instances, or the uids of delete_many
Batch(r) == IF r.op = "_delete_many" THEN r.uids ELSE r.objs

\* variant: the comprehension walks the batch from its end
NextItem_reversed(xs, idx) == xs[Len(xs) - idx]

\* the element the comprehension `for x in xs` visits after idx elements
NextItem(xs, idx) == xs[idx + 1]

\* await self._create(obj)
_create_many_item(obj) == Await(_create(obj))
\* await self._put(obj): _put takes (uid, obj), the call raises TypeError
_put_many_item(obj) == Raise("TypeError")
\* await self._patch(obj): _patch takes (uid, obj), the call raises TypeError
_patch_many_item(obj) == Raise("TypeError")
\* await self._delete(uid)
_delete_many_item(uid) == Await(_delete(uid))

\* the next step of the method r.op after r.idx backend calls have returned
NextStep(r) ==
    IF r.op \in SingleMethods
    THEN IF r.idx > 0 THEN Return
         ELSE CASE r.op = "_get" -> Await(_get(r.uid))
                [] r.op = "_get_many" -> Await(_get_many(r.flt))
                [] r.op = "_create" -> Await(_create(r.objs[1]))
                [] r.op = "_put" -> Await(_put(r.uid, r.objs[1]))
                [] r.op = "_patch" -> Await(_patch(r.uid, r.objs[1]))
                [] r.op = "_delete" -> Await(_delete(r.uid))
    ELSE IF r.idx >= Len(Batch(r)) THEN Return
         ELSE LET x == NextItem(Batch(r), r.idx)
              IN CASE r.op = "_create_many" -> _create_many_item(x)
                   [] r.op = "_put_many" -> _put_many_item(x)
                   [] r.op = "_patch_many" -> _patch_many_item(x)
                   [] r.op = "_delete_many" -> _delete_many_item(x)

\* run the method body up to its next suspension point
Advance(r) ==
    LET s == NextStep(r)
    IN CASE s.kind = "call" -> [r EXCEPT !.pc = "ready"]
         [] s.kind = "raise" -> [r EXCEPT !.pc = "done", !.outcome = s.err]
         [] s.kind = "return" -> [r EXCEPT !.pc = "done", !.outcome = "ok"]

\* variant: a call the backend could not serve is issued again
Resume_retry(r, err, val) ==
    IF err = "BackendUnavailable" THEN [r EXCEPT !.pc = "ready"]
    ELSE IF err # "none" THEN [r EXCEPT !.pc = "done", !.outcome = err]
    ELSE Advance([r EXCEPT !.idx = @ + 1, !.results = Append(@, val)])

\* variant: a failed item is skipped and the batch goes on (best effort)
Resume_best_effort(r, err, val) ==
    Advance([r EXCEPT !.idx = @ + 1, !.results = Append(@, val)])

\* the awaited backend call completed with err / val: an error leaves the
\* method as its exception, a value is kept and the body goes on
Resume(r, err, val) ==
    IF err # "none" THEN [r EXCEPT !.pc = "done", !.outcome = err]
    ELSE Advance([r EXCEPT !.idx = @ + 1, !.results = Append(@, val)])

\* the closures BaseCrud.__init__ builds, each forwarding to one method
Closures ==
    [n \in {"get", "get_many", "create", "create_many", "put", "put_many",
            "patch", "patch_many", "delete", "delete_many"} |-> "_" \o n]

\* the closures __init__ binds on the instance (self.get = get, ...)
InstanceAttrs ==
    {"get", "put", "patch", "create", "delete", "get_many", "put_many",
     "patch_many", "delete_many"}

\* crud.<attr>: the method the attribute runs, or "AttributeError"
Lookup(attr) ==
    IF attr \in InstanceAttrs THEN Closures[attr]
    ELSE IF attr \in Methods THEN attr
    ELSE "AttributeError"


\* ---------------------------------------------------------------- router
\* the routes CRUDRouter.__init__ registers: self.<verb>(path)(self.crud.<op>)
Route(method, path, endpoint) == [method |-> method, path |-> path, endpoint |-> endpoint]

Routes ==
    {Route("GET", "/{oid}", "get"),
     Route("GET", "/", "get_many"),
     Route("POST", "/", "create"),
     Route("PATCH", "/{oid}", "patch"),
     Route("PATCH", "/", "patch_many"),
     Route("PUT", "/{oid}", "put"),
     Route("PUT", "/", "put_many"),
     Route("DELETE", "/{oid}", "delete"),
     Route("DELETE", "/", "delete_many")}

\* variant: the dispatcher is built on a storage instance of its own
CRUDRouter_init_own_storage ==
    [instances |-> {"storage0", "storage1"},
     storage |-> "storage0",
     on_startup |-> <<[instance |-> "storage0", handler |-> "start"]>>,
     on_shutdown |-> <<[instance |-> "storage0", handler |-> "stop"]>>,
     crud_storage |-> "storage1",
     routes |-> Routes]

\* CRUDRouter.__init__: one storage instance, its start / stop registered
\* as lifecycle handlers, the dispatcher built on the same instance
CRUDRouter_init ==
    [instances |-> {"storage0"},
     storage |-> "storage0",
     on_startup |-> <<[instance |-> "storage0", handler |-> "start"]>>,
     on_shutdown |-> <<[instance |-> "storage0", handler |-> "stop"]>>,
     crud_storage |-> "storage0",
     routes |-> Routes]

\* the parameters each closure declares
NeedsUid(m) == m \in {"_get", "_put", "_patch", "_delete"}

\* the names a path template declares
PathParams(path) == IF path = "/{oid}" THEN {"oid"} ELSE {}

\* where the framework takes a scalar handler parameter from: the path when
\* the template declares that name, the query string otherwise
ParamSource(path, param) == IF param \in PathParams(path) THEN "path" ELSE "query"

\* the value bound to the closure's parameter `uid`
UidArgument(path, pathId, queryUid) ==
    IF ParamSource(path, "uid") = "path" THEN pathId ELSE queryUid

\* --------------------------------------------------------------- state
VARIABLES
    router,        \* what CRUDRouter.__init__ built
    phase,         \* host process: "constructed", "serving", "stopped", "failed"
    backend,       \* lifecycle of each storage instance: "new", "started", "stopped"
    asyncBackend,  \* whether the backend's operations are coroutines
    db,            \* the backend's collection
    nextUid,       \* next identifier uuid1 hands out
    ncalls,        \* dispatcher calls made so far
    req,           \* the requests being served, one per task
    last           \* the last backend write that took effect

vars == <<router, phase, backend, asyncBackend, db, nextUid, ncalls, req, last>>

Known == 1..(nextUid - 1)      \* identifiers a caller can have seen
Now == ncalls                  \* datetime.now(): one tick per request received

SeqsUpTo(S, n) == UNION {[1..k -> S] : k \in 0..n}

Bodies == [name : Names, uid : {NoUid} \cup Known]

Idle ==
    [pc |-> "idle", attr |-> "", op |-> "", uid |-> NoUid, bodies |-> <<>>,
     objs |-> <<>>, uids |-> <<>>, flt |-> NoFilter, http |-> NoHttp,
     idx |-> 0, results |-> <<>>, log |-> <<>>, outcome |-> "pending", seq |-> 0]

NoWrite == [op |-> "", uid |-> NoUid, obj |-> NoObj, seq |-> 0]

\* the closure (or method) a caller means by a name
Intended(attr) == IF attr \in DOMAIN Closures THEN Closures[attr] ELSE attr

\* the arguments a caller can give to method m; the bodies explored for put
\* and patch leave the uid to its default factory
ArgChoices(m) ==
    [uid : IF NeedsUid(m) THEN Known ELSE {NoUid},
     bodies : CASE m = "_create" -> [1..1 -> Bodies]
                [] m \in {"_put", "_patch"} -> [1..1 -> [name : Names, uid : {NoUid}]]
                [] m \in {"_create_many", "_put_many", "_patch_many"} ->
                       SeqsUpTo(Bodies, MaxBatch)
                [] OTHER -> {<<>>},
     uids : IF m = "_delete_many" THEN SeqsUpTo(Known, MaxBatch) ELSE {<<>>},
     flt : IF m = "_get_many"
           THEN [field : {"name"}, value : Names, opr : {"eq", "zz"}]
           ELSE {NoFilter}]

\* a request that entered method m with arguments a
Entered(attr, m, a, http, n) ==
    [Idle EXCEPT !.attr = attr, !.op = m, !.uid = a.uid, !.bodies = a.bodies,
                 !.objs = ParseList(a.bodies, nextUid, n),
                 !.uids = a.uids, !.flt = a.flt, !.http = http, !.seq = n]

\* a request that ended before any method ran
Refused(attr, a, http, n, err) ==
    [Idle EXCEPT !.pc = "done", !.attr = attr, !.bodies = a.bodies,
                 !.uids = a.uids, !.flt = a.flt, !.http = http, !.seq = n,
                 !.outcome = err]

\* a backend whose operations are plain functions runs inside the calling
\* task without yielding: no other task runs while one is inside its method
LoopFree(p) == asyncBackend \/ \A q \in Procs \ {p} : req[q].pc # "ready"

\* records an earlier run of the process can have left in the collection
Persisted ==
    [u \in {1, 2} |-> BaseCrudModel([name |-> IF u = 1 THEN "a" ELSE "b", uid |-> u], u, 0)]

Restrict(f, S) == [x \in S |-> f[x]]

Init ==
    /\ router = CRUDRouter_init
    /\ phase = "constructed"
    /\ backend = [i \in router.instances |-> "new"]
    /\ asyncBackend \in BOOLEAN
    /\ db \in {Restrict(Persisted, us) : us \in {{}, {1}}}
    /\ nextUid = 3
    /\ ncalls = 0
    /\ req = [p \in Procs |-> Idle]
    /\ last = NoWrite


\* -------------------------------------------------------- host lifecycle
\* the host runs the registered handlers in order
RECURSIVE RunHandlers(_, _)
RunHandlers(hs, b) ==
    IF hs = <<>> THEN b
    ELSE RunHandlers(Tail(hs),
                     [b EXCEPT ![Head(hs).instance] =
                          IF Head(hs).handler = "start" THEN "started" ELSE "stopped"])

\* process startup: the on_startup handlers run, then requests are served;
\* a handler that fails aborts the startup
Startup ==
    /\ phase = "constructed"
    /\ \E ok \in BOOLEAN :
         IF ok THEN /\ backend' = RunHandlers(router.on_startup, backend)
                    /\ phase' = "serving"
         ELSE /\ phase' = "failed"
              /\ UNCHANGED backend
    /\ UNCHANGED <<router, asyncBackend, db, nextUid, ncalls, req, last>>

\* process shutdown: requests are drained, the on_shutdown handlers run
Shutdown ==
    /\ phase = "serving"
    /\ \A p \in Procs : req[p].pc \in {"idle", "done"}
    /\ backend' = RunHandlers(router.on_shutdown, backend)
    /\ phase' = "stopped"
    /\ UNCHANGED <<router, asyncBackend, db, nextUid, ncalls, req, last>>

\* ----------------------------------------------------------- requests
Free(p) == req[p].pc \in {"idle", "done"}

\* the model keeps the two latest requests: request n is kept in r1 when n
\* is odd and in r2 when it is even, once the request two before it ended
Slot(n) == IF n % 2 = 1 THEN "r1" ELSE "r2"

CanAccept(p) ==
    /\ phase = "serving"
    /\ Free(p)
    /\ p = Slot(ncalls + 1)
    /\ LoopFree(p)

\* names a caller reaches on the dispatcher object
SingleNames == {"get", "get_many", "create", "put", "patch", "delete"}
BulkNames == {"create_many", "put_many", "patch_many", "delete_many", "_create_many"}
ReadNames == {"get", "get_many"}

\* crud.<attr>(args), called in-process, for one of the given names
Call(p, names) ==
    /\ CanAccept(p)
    /\ ncalls < MaxCalls
    /\ \E attr \in names :
         \E a \in ArgChoices(Intended(attr)) :
            LET m == Lookup(attr)
                n == ncalls + 1
            IN IF m = "AttributeError"
               THEN /\ req' = [req EXCEPT ![p] = Refused(attr, a, NoHttp, n, m)]
                    /\ UNCHANGED nextUid
               ELSE /\ req' = [req EXCEPT ![p] = Advance(Entered(attr, m, a, NoHttp, n))]
                    /\ nextUid' = nextUid + NFresh(a.bodies)
    /\ ncalls' = ncalls + 1
    /\ UNCHANGED <<router, phase, backend, asyncBackend, db, last>>

\* a call of a single-item operation
InvokeSingle(p) == Call(p, SingleNames)

\* a call of a bulk operation; in the runs explored it is the run's first call
InvokeBulk(p) == ncalls = 0 /\ Call(p, BulkNames)

\* a read that follows, or runs beside, a bulk call
InvokeRead(p) == ncalls > 0 /\ Call(p, ReadNames)

HttpMethods == {"GET", "POST", "PUT", "PATCH", "DELETE"}
NoArgs == [uid |-> NoUid, bodies |-> <<>>, uids |-> <<>>, flt |-> NoFilter]

\* an HTTP request reaching the router: the route is matched, the closure's
\* parameters are bound, the closure runs (a request to a bulk route is
\* explored as the run's first request)
HttpRequest(p) ==
    /\ CanAccept(p)
    /\ ncalls < MaxHttp
    /\ \E method \in HttpMethods, path \in {"/{oid}", "/"},
          pathId \in Known \cup {NoUid}, queryUid \in Known \cup {NoUid} :
         /\ (path = "/") <=> (pathId = NoUid)
         /\ LET http == [method |-> method, path |-> path, pathId |-> pathId,
                         queryUid |-> queryUid]
                matched == {rt \in router.routes : rt.method = method /\ rt.path = path}
                n == ncalls + 1
            IN IF matched = {}
               THEN /\ queryUid = NoUid
                    /\ req' = [req EXCEPT ![p] = Refused("", NoArgs, http, n, "NoRoute")]
                    /\ UNCHANGED nextUid
               ELSE \E rt \in matched :
                      LET m == Closures[rt.endpoint]
                          u == UidArgument(path, pathId, queryUid)
                      IN IF NeedsUid(m) /\ u = NoUid
                         THEN /\ req' = [req EXCEPT ![p] =
                                   Refused(rt.endpoint, NoArgs, http, n, "ValidationError")]
                              /\ UNCHANGED nextUid
                         ELSE /\ NeedsUid(m) \/ queryUid = NoUid
                              /\ m \in BulkMethods => ncalls = 0
                              /\ \E a \in ArgChoices(m) :
                                   /\ NeedsUid(m) => a.uid = u
                                   /\ req' = [req EXCEPT ![p] =
                                        Advance(Entered(rt.endpoint, m, a, http, n))]
                                   /\ nextUid' = nextUid + NFresh(a.bodies)
    /\ ncalls' = ncalls + 1
    /\ UNCHANGED <<router, phase, backend, asyncBackend, db, last>>

\* --------------------------------------------------------- backend calls
\* run_async_or_sync(self.storage.<op>, ...): the call is issued
Begun(r) ==
    [r EXCEPT !.pc = "incall",
              !.log = Append(@, [call |-> NextStep(r).call, err |-> "pending", val |-> <<>>])]

\* the backend operation takes effect on coll and returns
Outcome(r, coll, now, unavailable) ==
    StorageExec(r.log[Len(r.log)].call, coll, now, unavailable)

\* the awaiting method gets the backend's error or value back
Ended(r, res) ==
    Resume([r EXCEPT !.log[Len(r.log)].err = res.err, !.log[Len(r.log)].val = res.val],
           res.err, res.val)

\* the caller's item the current step of r works on
Supplied(r) ==
    IF r.op \in SingleMethods
    THEN [uid |-> IF NeedsUid(r.op) THEN r.uid
                  ELSE IF r.objs # <<>> THEN r.objs[1].uid ELSE NoUid,
          obj |-> IF r.objs # <<>> THEN r.objs[1] ELSE NoObj]
    ELSE IF r.op = "_delete_many"
         THEN [uid |-> r.uids[r.idx + 1], obj |-> NoObj]
         ELSE [uid |-> r.objs[r.idx + 1].uid, obj |-> r.objs[r.idx + 1]]

Written(r, res) ==
    IF res.err = "none" /\ r.log[Len(r.log)].call.op \in {"create", "put", "patch", "delete"}
    THEN [op |-> r.log[Len(r.log)].call.op, uid |-> Supplied(r).uid,
          obj |-> Supplied(r).obj, seq |-> r.seq]
    ELSE last

\* the backend behind the dispatcher answers only while it is started
Failures == IF backend[router.crud_storage] = "started" THEN BOOLEAN ELSE {TRUE}

\* a plain-function backend: the call runs to completion inside the step
CallSync(p) ==
    /\ ~asyncBackend
    /\ req[p].pc = "ready"
    /\ \E unavailable \in Failures :
         LET r == Begun(req[p])
             res == Outcome(r, db, Now, unavailable)
         IN /\ db' = res.coll
            /\ last' = Written(r, res)
            /\ req' = [req EXCEPT ![p] = Ended(r, res)]
    /\ UNCHANGED <<router, phase, backend, asyncBackend, nextUid, ncalls>>

\* a coroutine backend: the task suspends in the call
CallBegin(p) ==
    /\ asyncBackend
    /\ req[p].pc = "ready"
    /\ req' = [req EXCEPT ![p] = Begun(req[p])]
    /\ UNCHANGED <<router, phase, backend, asyncBackend, db, nextUid, ncalls, last>>

\* ... and resumes when the backend operation completes
CallEnd(p) ==
    /\ asyncBackend
    /\ req[p].pc = "incall"
    /\ \E unavailable \in Failures :
         LET r == req[p]
             res == Outcome(r, db, Now, unavailable)
         IN /\ db' = res.coll
            /\ last' = Written(r, res)
            /\ req' = [req EXCEPT ![p] = Ended(r, res)]
    /\ UNCHANGED <<router, phase, backend, asyncBackend, nextUid, ncalls>>

\* in-process callers of the single-item operations
Next ==
    \/ Startup
    \/ Shutdown
    \/ \E p \in Procs : InvokeSingle(p)
    \/ \E p \in Procs : CallSync(p)
    \/ \E p \in Procs : CallBegin(p)
    \/ \E p \in Procs : CallEnd(p)

Spec == Init /\ [][Next]_vars

\* in-process callers of the bulk operations
NextBulk ==
    \/ Startup
    \/ Shutdown
    \/ \E p \in Procs : InvokeBulk(p)
    \/ \E p \in Procs : InvokeRead(p)
    \/ \E p \in Procs : CallSync(p)
    \/ \E p \in Procs : CallBegin(p)
    \/ \E p \in Procs : CallEnd(p)

SpecBulk == Init /\ [][NextBulk]_vars

\* HTTP clients of the router
NextHttp ==
    \/ Startup
    \/ Shutdown
    \/ \E p \in Procs : HttpRequest(p)
    \/ \E p \in Procs : CallSync(p)
    \/ \E p \in Procs : CallBegin(p)
    \/ \E p \in Procs : CallEnd(p)

SpecHttp == Init /\ [][NextHttp]_vars


\* ================================================================ claims
IsError(e) == e \notin {"none", "pending"}
BulkReq(r) == r.op \in BulkMethods
Done(r) == r.pc = "done"

\* the i-th backend call of bulk request r is the call for the i-th item
CallForItem(r, i) ==
    CASE r.op = "_delete_many" ->
             r.log[i].call.op = "delete" /\ r.log[i].call.uid = r.uids[i]
      [] r.op = "_create_many" ->
             r.log[i].call.op = "create" /\ r.log[i].call.obj = r.objs[i]
      [] r.op = "_put_many" ->
             r.log[i].call.op = "put" /\ r.log[i].call.obj = r.objs[i]
      [] r.op = "_patch_many" ->
             r.log[i].call.op = "patch" /\ r.log[i].call.obj = r.objs[i]

\* the effect of the i-th item of bulk request r is in the collection
ItemEffectStays(r, i) ==
    CASE r.op = "_delete_many" -> r.uids[i] \notin DOMAIN db
      [] OTHER -> r.objs[i].uid \in DOMAIN db /\ db[r.objs[i].uid].name = r.objs[i].name

C1_Bulk(r) ==
    \* a backend failure on an item is the last call made and the outcome
    /\ \A i \in 1..Len(r.log) :
         IsError(r.log[i].err) =>
             /\ i = Len(r.log)
             /\ Done(r)
             /\ r.outcome = r.log[i].err
    \* a failed bulk call failed on item idx + 1 and called nothing after it
    /\ (Done(r) /\ r.outcome # "ok") =>
             /\ r.idx < Len(Batch(r))
             /\ Len(r.log) \in {r.idx, r.idx + 1}
             /\ Len(r.results) = r.idx
    \* the items before it took effect and stay
    /\ \A i \in 1..r.idx : ItemEffectStays(r, i)

C1_State == \A p \in Procs : BulkReq(req[p]) => C1_Bulk(req[p])

\* a get that completes while the last write is the delete of its uid fails
C1_GetAfterDelete ==
    \A q \in Procs :
       (/\ req[q].op = "_get"
        /\ ~Done(req[q])
        /\ Done(req'[q])
        /\ last.op = "delete"
        /\ last.uid = req[q].uid)
       => req'[q].outcome \in {"NotFound", "BackendUnavailable"}

\* C1: a bulk operation stops at its first failing item: that item's error
\* is the outcome of the bulk call, no later item is sent to the backend and
\* the effects of the earlier items stay; after delete_many([X, Y]) failed
\* with NotFound on Y, get(X) fails with NotFound.
C1_FirstFailureStops == []C1_State /\ [][C1_GetAfterDelete]_vars

\* delete_many([1, 2]) with 1 present and 2 absent failed with NotFound after
\* deleting 1, and the get(1) that followed failed with NotFound
C1_Witness ==
    \E p, q \in Procs :
       /\ req[p].op = "_delete_many" /\ req[p].uids = <<1, 2>>
       /\ Done(req[p]) /\ req[p].outcome = "NotFound" /\ req[p].idx = 1
       /\ Len(req[p].log) = 2
       /\ 1 \notin DOMAIN db
       /\ req[q].op = "_get" /\ req[q].uid = 1 /\ req[q].seq > req[p].seq
       /\ Done(req[q]) /\ req[q].outcome = "NotFound"

\* C2: a bulk operation issues its backend calls in input order, one at a
\* time (a call starts only after the one before it completed), a successful
\* call returns the items' results in input order, and an empty batch makes
\* no backend call and returns the empty list.
C2_SequentialInOrder ==
    \A p \in Procs :
       LET r == req[p]
       IN BulkReq(r) =>
            /\ Len(r.log) <= Len(Batch(r))
            /\ \A i \in 1..Len(r.log) : CallForItem(r, i)
            /\ \A i \in 1..(Len(r.log) - 1) : r.log[i].err = "none"
            /\ Len(r.log) \in {r.idx, r.idx + 1}
            /\ (r.pc = "incall") <=> (r.log # <<>> /\ r.log[Len(r.log)].err = "pending")
            /\ (Done(r) /\ r.outcome = "ok") =>
                 /\ Len(r.results) = Len(Batch(r))
                 /\ Len(r.log) = Len(Batch(r))
                 /\ \A i \in 1..Len(r.results) : r.results[i] = r.log[i].val
            /\ Batch(r) = <<>> =>
                 Done(r) /\ r.outcome = "ok" /\ r.log = <<>> /\ r.results = <<>>

\* a bulk create of two different records succeeded, results in input order
C2_Witness ==
    \E p \in Procs :
       LET r == req[p]
       IN /\ r.op = "_create_many" /\ Len(r.objs) = 2
          /\ r.objs[1].name # r.objs[2].name
          /\ Done(r) /\ r.outcome = "ok"
          /\ r.results = <<(<<r.objs[1]>>), (<<r.objs[2]>>)>>


\* no backend call of r was refused for lack of resources
Available(r) == \A i \in 1..Len(r.log) : r.log[i].err # "BackendUnavailable"

\* item i is the last item of the batch that names its uid
LastOfUid(r, i) == \A j \in (i + 1)..Len(r.objs) : r.objs[j].uid # r.objs[i].uid

\* C3: put_many of a non-empty batch of existing records succeeds and leaves
\* every record of the batch stored as its replacement.
C3_PutManyReplaces ==
    \A p \in Procs :
       LET r == req[p]
       IN (/\ r.op = "_put_many" /\ Done(r) /\ r.objs # <<>>
           /\ \A i \in 1..Len(r.objs) : r.objs[i].uid \in DOMAIN db
           /\ Available(r))
          => /\ r.outcome = "ok"
             /\ \A i \in 1..Len(r.objs) :
                  LastOfUid(r, i) => db[r.objs[i].uid].name = r.objs[i].name

\* C4: patch_many of a non-empty batch succeeds and leaves every record of
\* the batch in the collection, created or merged.
C4_PatchManyUpserts ==
    \A p \in Procs :
       LET r == req[p]
       IN (r.op = "_patch_many" /\ Done(r) /\ r.objs # <<>> /\ Available(r))
          => /\ r.outcome = "ok"
             /\ \A i \in 1..Len(r.objs) :
                  /\ r.objs[i].uid \in DOMAIN db
                  /\ LastOfUid(r, i) => db[r.objs[i].uid].name = r.objs[i].name

\* C5: the dispatcher exposes create_many; create_many of two records with
\* no uid and equal fields succeeds and stores two records with distinct uids.
C5_CreateManyExposed ==
    \A p \in Procs :
       LET r == req[p]
       IN (/\ r.attr = "create_many" /\ Done(r) /\ Len(r.bodies) = 2
           /\ r.bodies[1].uid = NoUid /\ r.bodies[2].uid = NoUid
           /\ r.bodies[1].name = r.bodies[2].name
           /\ Available(r))
          => /\ r.outcome = "ok"
             /\ Len(r.objs) = 2
             /\ r.objs[1].uid # r.objs[2].uid
             /\ {r.objs[1].uid, r.objs[2].uid} \subseteq DOMAIN db

\* the backend operation a single-item method stands for
BackendOp(m) ==
    CASE m = "_get" -> "get" [] m = "_get_many" -> "get_many"
      [] m = "_create" -> "create" [] m = "_put" -> "put"
      [] m = "_patch" -> "patch" [] m = "_delete" -> "delete"

\* C6: a single-item operation makes exactly one backend call, the
\* corresponding one, and its outcome is the backend's: the backend's error
\* unchanged, or the backend's value.
C6_ErrorsPropagate ==
    \A p \in Procs :
       LET r == req[p]
       IN r.op \in SingleMethods =>
            /\ Len(r.log) <= 1
            /\ r.log # <<>> => r.log[1].call.op = BackendOp(r.op)
            /\ Done(r) =>
                 /\ Len(r.log) = 1
                 /\ IF IsError(r.log[1].err)
                    THEN r.outcome = r.log[1].err /\ r.results = <<>>
                    ELSE r.outcome = "ok" /\ r.results = <<r.log[1].val>>

\* the backend answered Conflict, NotFound or InvalidOperator and the
\* dispatcher call ended with that error after one backend call
C6_Witness ==
    \E p \in Procs :
       LET r == req[p]
       IN /\ r.op \in SingleMethods /\ Done(r) /\ Len(r.log) = 1
          /\ r.log[1].err \in {"Conflict", "NotFound", "InvalidOperator"}
          /\ r.outcome = r.log[1].err

\* the dispatcher hands the record and the identifier over as given
C7_Forwarded ==
    \A p \in Procs :
       LET r == req[p]
       IN /\ (r.op = "_create" /\ r.log # <<>>) =>
               /\ r.log[1].call.obj = r.objs[1]
               /\ r.objs[1].name = r.bodies[1].name
               /\ r.bodies[1].uid # NoUid => r.objs[1].uid = r.bodies[1].uid
          /\ (r.op = "_get" /\ r.log # <<>>) => r.log[1].call.uid = r.uid

\* a get that completes while the last write is the create of its uid
\* returns the record that create was given
C7_GetAfterCreate ==
    \A q \in Procs :
       (/\ req[q].op = "_get"
        /\ ~Done(req[q])
        /\ Done(req'[q])
        /\ last.op = "create"
        /\ last.uid = req[q].uid
        /\ req'[q].outcome # "BackendUnavailable")
       => /\ req'[q].outcome = "ok"
          /\ req'[q].results = <<(<<last.obj>>)>>

\* C7: create(r) followed by get on the created record's uid returns a
\* record equal to r up to the defaults (uid, timestamps); the dispatcher
\* passes the record and the uid to the backend unmodified.
C7_CreateThenGet == []C7_Forwarded /\ [][C7_GetAfterCreate]_vars

\* a record sent without uid was created, and the get on its uid returned it
C7_Witness ==
    \E p, q \in Procs :
       /\ req[p].op = "_create" /\ Done(req[p]) /\ req[p].outcome = "ok"
       /\ req[p].bodies[1].uid = NoUid
       /\ req[q].op = "_get" /\ Done(req[q]) /\ req[q].outcome = "ok"
       /\ req[q].seq > req[p].seq
       /\ req[q].uid = req[p].objs[1].uid
       /\ last.op = "create" /\ last.seq = req[p].seq
       /\ req[q].results = <<(<<req[p].objs[1]>>)>>
       /\ req[q].results[1][1].name = req[p].bodies[1].name

\* C8: concurrent puts on one uid are not ordered by the dispatcher; the
\* stored record is the one given by the put whose backend write came last.
\* With a backend of plain functions no task is inside a backend call while
\* another runs.
C8_LastWriteWins ==
    /\ last.op = "put" =>
         /\ last.uid \in DOMAIN db
         /\ db[last.uid].uid = last.uid
         /\ db[last.uid].name = last.obj.name
         /\ db[last.uid].created_on = last.obj.created_on
    /\ ~asyncBackend =>
         /\ \A p \in Procs : req[p].pc # "incall"
         /\ Cardinality({p \in Procs : req[p].pc = "ready"}) <= 1

\* two puts on uid 1 were in flight together and the one issued first wrote last
C8_Witness ==
    \E p, q \in Procs :
       /\ req[p].op = "_put" /\ req[q].op = "_put"
       /\ req[p].uid = 1 /\ req[q].uid = 1
       /\ req[p].seq < req[q].seq
       /\ Done(req[p]) /\ Done(req[q])
       /\ req[p].outcome = "ok" /\ req[q].outcome = "ok"
       /\ req[p].objs[1].name # req[q].objs[1].name
       /\ last.op = "put" /\ last.seq = req[p].seq
       /\ db[1].name = req[p].objs[1].name


\* C9: the router creates one storage instance and shares it with its
\* dispatcher; start is its startup handler and stop its shutdown handler:
\* no dispatcher operation reaches a backend that was not started, and once
\* the process has shut down the backend is stopped.
C9_Lifecycle ==
    /\ Cardinality(router.instances) = 1
    /\ router.storage \in router.instances
    /\ router.crud_storage = router.storage
    /\ router.on_startup = <<[instance |-> router.storage, handler |-> "start"]>>
    /\ router.on_shutdown = <<[instance |-> router.storage, handler |-> "stop"]>>
    /\ \A p \in Procs :
         /\ req[p].log # <<>> => backend[router.crud_storage] \in {"started", "stopped"}
         /\ req[p].pc = "incall" => backend[router.crud_storage] = "started"
    /\ phase = "serving" => backend[router.storage] = "started"
    /\ phase = "stopped" => backend[router.storage] = "stopped"

\* the process started, served an HTTP request from the backend and shut
\* down: the backend is stopped
C9_Witness ==
    /\ phase = "stopped"
    /\ backend[router.storage] = "stopped"
    /\ \E p \in Procs :
         /\ req[p].http.method # ""
         /\ Done(req[p]) /\ req[p].outcome = "ok"
         /\ req[p].log # <<>> /\ req[p].log[1].err = "none"

\* the table of the HTTP surface: method, whether the path names a record,
\* dispatcher operation
HttpTable ==
    {<<"GET", TRUE, "get">>, <<"GET", FALSE, "get_many">>,
     <<"POST", FALSE, "create">>,
     <<"PUT", TRUE, "put">>, <<"PUT", FALSE, "put_many">>,
     <<"PATCH", TRUE, "patch">>, <<"PATCH", FALSE, "patch_many">>,
     <<"DELETE", TRUE, "delete">>, <<"DELETE", FALSE, "delete_many">>}

\* C10: the router binds each (method, path) pair of the table to its
\* dispatcher operation, once, and the identifier of the path is the
\* identifier the operation is called with.
C10_RoutesBindPathId ==
    /\ {<<rt.method, rt.path # "/", rt.endpoint>> : rt \in router.routes} = HttpTable
    /\ \A a, b \in router.routes : (a.method = b.method /\ a.path = b.path) => a = b
    /\ \A p \in Procs :
         LET r == req[p]
         IN (r.http.method # "" /\ r.http.path # "/" /\ r.op # "") =>
               /\ <<r.http.method, TRUE, r.attr>> \in HttpTable
               /\ r.op = Closures[r.attr]
               /\ r.uid = r.http.pathId

====
